---- MODULE Spec2Model ----
(***************************************************************************)
(* Celebrate Failure (src/script.js): the page script shared by            *)
(* index.html (terminal), fails.html (fail log with delete) and            *)
(* mottos.html (motto list with add).                                      *)
(*                                                                         *)
(* A tab is one browsing context.  Loading a page in a tab runs the whole  *)
(* script: it builds defaultState, reads localStorage, and wires the page  *)
(* on DOMContentLoaded.  Every later step is one event handler run to      *)
(* completion (or to an uncaught exception).                               *)
(*                                                                         *)
(* Text is a sequence of lexemes: a lexeme is one whitespace character,    *)
(* one quote character, or a maximal run of other characters.  The string  *)
(* a text stands for is the concatenation of its lexemes.                  *)
(***************************************************************************)
EXTENDS Integers, Sequences, FiniteSets, TLC

\* ---------------------------------------------------------------- bounds
\* shortId() returns one of NumIds tokens (Math.random has finitely many).
NumIds == 2
\* Mottos are appended only while the list is shorter than this.
MaxMottos == 4
\* The clock advances up to MaxNow ticks; TicksPerDay ticks are one day.
MaxNow == 1
TicksPerDay == 1

\* Tabs that may be open on the storage origin.
Tabs == {1, 2}
Ids == 1..NumIds

VARIABLES
  store,      \* localStorage[STORAGE_KEY]: [text, val]
  now,        \* the wall clock (Date.now()), in ticks
  page,       \* page[t]: the document loaded in tab t
  state,      \* state[t]: the script's `state` binding in tab t
  listening,  \* listening[t]: the page's submit listener is attached and reachable
  rows,       \* rows[t]: the entries captured by the rendered rows of fails.html
  out,        \* out[t]: lines appended to #screen since the last submit began (or since clear)
  input,      \* input[t]: value of the #command field
  confetti,   \* confetti[t]: number of particles in #confetti
  lastWriter, \* the tab whose saveState ran last (0: none yet)
  ev          \* the event handler that produced the current state

vars == <<store, now, page, state, listening, rows, out, input, confetti,
          lastWriter, ev>>

\* ---------------------------------------------------------------- text
SP == " "
DQ == "\""
SQ == "'"

IsSpace(ch) == ch = SP

RECURSIVE Reverse(_)
Reverse(s) == IF s = <<>> THEN <<>> ELSE Append(Reverse(Tail(s)), Head(s))

RemoveAt(s, i) == SubSeq(s, 1, i - 1) \o SubSeq(s, i + 1, Len(s))

\* String.prototype.trim
RECURSIVE trimStart(_)
trimStart(s) ==
  IF s # <<>> /\ IsSpace(Head(s)) THEN trimStart(Tail(s)) ELSE s

RECURSIVE trimEnd(_)
trimEnd(s) ==
  IF s # <<>> /\ IsSpace(s[Len(s)]) THEN trimEnd(SubSeq(s, 1, Len(s) - 1)) ELSE s

trim(s) == trimEnd(trimStart(s))

\* String.prototype.toLowerCase on the letters the command lines use
LowerLexeme(w) ==
  CASE w = "PUSH" -> "push"
    [] w = "About" -> "about"
    [] w = "Motto" -> "motto"
    [] OTHER -> w

toLowerCase(s) == [i \in DOMAIN s |-> LowerLexeme(s[i])]

\* Array.prototype.join(' ')
RECURSIVE join(_)
join(toks) ==
  IF toks = <<>> THEN <<>>
  ELSE IF Len(toks) = 1 THEN toks[1]
  ELSE toks[1] \o <<SP>> \o join(Tail(toks))

\* least j > i with s[j] = q, or 0
Closing(s, i, q) ==
  LET js == {j \in (i + 1)..Len(s) : s[j] = q}
  IN IF js = {} THEN 0 ELSE CHOOSE j \in js : \A k \in js : j <= k

\* last index of the maximal run of non-whitespace starting at i
RunEnd(s, i) ==
  LET sp == {j \in i..Len(s) : IsSpace(s[j])}
  IN IF sp = {} THEN Len(s) ELSE (CHOOSE j \in sp : \A k \in sp : j <= k) - 1

\* tokenize: /"([^"]*)"|'([^']*)'|(\S+)/g
RECURSIVE tokenizeFrom(_, _)
tokenizeFrom(s, i) ==
  IF i > Len(s) THEN <<>>
  ELSE IF IsSpace(s[i]) THEN tokenizeFrom(s, i + 1)
  ELSE LET close == IF s[i] \in {DQ, SQ} THEN Closing(s, i, s[i]) ELSE 0
           run == RunEnd(s, i)
       IN IF close # 0
            THEN <<SubSeq(s, i + 1, close - 1)>> \o tokenizeFrom(s, close + 1)
            ELSE <<SubSeq(s, i, run)>> \o tokenizeFrom(s, run + 1)

tokenize(s) == tokenizeFrom(s, 1)

\* ---------------------------------------------------------------- values
NoSeq == <<>>

\* A parsed JSON value: shape "State" is an object with pending, entries and
\* mottos; "alien" is a truthy value without them ({}, [], 42, "x", true);
\* "falsy" is null, 0, false or "".
Value(shape, pending, entries, mottos) ==
  [shape |-> shape, pending |-> pending, entries |-> entries, mottos |-> mottos]

Null == Value("falsy", NoSeq, NoSeq, NoSeq)
Alien == Value("alien", NoSeq, NoSeq, NoSeq)

Truthy(v) == v.shape # "falsy"
IsState(v) == v.shape = "State"

\* Date.prototype.toLocaleDateString: the calendar day of an instant
toLocaleDateString(t) == t \div TicksPerDay

seedMottos ==
  << <<"Blameless,", SP, "then", SP, "curious.">>,
     <<"Ship,", SP, "learn,", SP, "repeat.">>,
     <<"If", SP, "it", SP, "hurts,", SP, "document", SP, "it.">> >>

seedEntries(id1, id2, t) ==
  << [id |-> id1, date |-> toLocaleDateString(t),
      message |-> <<"Pushed", SP, "broken", SP, "config", SP, "to", SP, "prod">>,
      lesson |-> <<"Add", SP, "CI", SP, "checks", SP, "&", SP, "use", SP, "feature", SP, "flags">>],
     [id |-> id2, date |-> toLocaleDateString(t),
      message |-> <<"Forgot", SP, "to", SP, "save", SP, "before", SP, "running", SP, "benchmarks">>,
      lesson |-> <<"Automate", SP, "benchmarks", SP, "in", SP, "npm", SP, "scripts">>] >>

defaultState(id1, id2, t) ==
  Value("State", NoSeq, seedEntries(id1, id2, t), seedMottos)

\* ---------------------------------------------------------------- storage
Absent == [text |-> "absent", val |-> Null]
Garbage == [text |-> "garbage", val |-> Null]

JSONstringify(v) == [text |-> "json", val |-> v]

\* JSON.parse(localStorage.getItem(KEY)) || null, with the catch
loadState(rec) ==
  IF rec.text = "json" /\ Truthy(rec.val) THEN rec.val ELSE Null

saveState(s) == JSONstringify(s)

\* ---------------------------------------------------------------- output
\* One <div class="line cls"> of #screen: msg names the fixed text, arg is
\* the interpolated text, data the interpolated entry or counts.
Line(cls, msg, arg, data) == [cls |-> cls, msg |-> msg, arg |-> arg, data |-> data]

Echo(raw) == Line("line", "$", raw, NoSeq)

helpLines ==
  [i \in 1..8 |->
     Line("info",
          <<"help", "about", "log", "commit", "push", "motto", "stats", "clear">>[i],
          NoSeq, NoSeq)]

aboutLines ==
  [i \in 1..8 |->
     Line(<<"info", "line", "line", "info", "info", "line", "line", "info">>[i],
          "about", NoSeq, <<i>>)]

bootLines ==
  <<Line("line", "Welcome", NoSeq, NoSeq), Line("line", "Type about", NoSeq, NoSeq)>>
    \o helpLines

\* What one command handler did: the state it left, the lines it printed,
\* whether it raised, whether it called saveState, whether it emptied #screen,
\* whether it started party(), and the ids shortId() returned to it.
Result(s, lines, threw, saved, cleared, party, drawn) ==
  [state |-> s, out |-> lines, threw |-> threw, saved |-> saved,
   cleared |-> cleared, party |-> party, drawn |-> drawn]

Printed(s, lines) == Result(s, lines, FALSE, FALSE, FALSE, FALSE, NoSeq)
Raised(s, lines) == Result(s, lines, TRUE, FALSE, FALSE, FALSE, NoSeq)

\* ---------------------------------------------------------------- commands
help(s) == Printed(s, helpLines)

aboutCmd(s) == Printed(s, aboutLines)

\* logCmd reversing state.entries in place (no slice())
logCmdInPlace(s) ==
  IF ~IsState(s) THEN Raised(s, NoSeq)
  ELSE IF s.entries = <<>> THEN Printed(s, <<Line("warn", "no commits yet", NoSeq, NoSeq)>>)
  ELSE Printed([s EXCEPT !.entries = Reverse(@)],
               [i \in DOMAIN s.entries |->
                  Line("ok", "commit", NoSeq, <<Reverse(s.entries)[i]>>)])

logCmd(s) ==
  IF ~IsState(s) THEN Raised(s, NoSeq)
  ELSE IF s.entries = <<>> THEN Printed(s, <<Line("warn", "no commits yet", NoSeq, NoSeq)>>)
  ELSE Printed(s, [i \in DOMAIN s.entries |->
                     Line("ok", "commit", NoSeq, <<Reverse(s.entries)[i]>>)])

\* randomFailure and suggestLesson are called by commitCmd and declared
\* nowhere in the script (strict mode): evaluating the name raises
\* ReferenceError.  ok = FALSE is that outcome.
randomFailure == [ok |-> FALSE, val |-> NoSeq]

suggestLesson(msg) == [ok |-> FALSE, val |-> NoSeq]

commitCmd(s, message) ==
  LET msg == IF trim(message) # <<>> THEN [ok |-> TRUE, val |-> trim(message)]
             ELSE randomFailure
      lesson == suggestLesson(msg.val)
  IN IF ~msg.ok \/ ~IsState(s) \/ ~lesson.ok THEN Raised(s, NoSeq)
     ELSE LET item == [message |-> msg.val, lesson |-> lesson.val]
              s2 == [s EXCEPT !.pending = Append(@, item)]
          IN Result(s2,
                    <<Line("ok", "staged 1 file for commit", NoSeq, NoSeq),
                      Line("info", "changes staged", NoSeq, <<item>>)>>,
                    FALSE, TRUE, FALSE, FALSE, NoSeq)

\* pushCmd calling shortId() once, outside the loop
pushedEntriesOneId(s, ids, t) ==
  [i \in DOMAIN s.pending |->
     [id |-> ids[1], date |-> toLocaleDateString(t),
      message |-> s.pending[i].message, lesson |-> s.pending[i].lesson]]

pushedEntries(s, ids, t) ==
  [i \in DOMAIN s.pending |->
     [id |-> ids[i], date |-> toLocaleDateString(t),
      message |-> s.pending[i].message, lesson |-> s.pending[i].lesson]]

\* pushCmd without the early return on empty pending
pushCmdNoGuard(s, ids, t) ==
  IF ~IsState(s) THEN Raised(s, NoSeq)
  ELSE Result([s EXCEPT !.entries = @ \o pushedEntries(s, ids, t), !.pending = <<>>],
              <<Line("ok", "pushed to origin", NoSeq, NoSeq)>>,
              FALSE, TRUE, FALSE, TRUE, ids)

pushCmd(s, ids, t) ==
  IF ~IsState(s) THEN Raised(s, NoSeq)
  ELSE IF s.pending = <<>> THEN Printed(s, <<Line("warn", "nothing to push", NoSeq, NoSeq)>>)
  ELSE Result([s EXCEPT !.entries = @ \o pushedEntries(s, ids, t), !.pending = <<>>],
              <<Line("ok", "pushed to origin", NoSeq, NoSeq)>>,
              FALSE, TRUE, FALSE, TRUE, ids)

\* mottoCmd testing the untrimmed text (if (!text) ...)
mottoCmdNoTrim(s, text) ==
  IF text = <<>> THEN Printed(s, <<Line("warn", "usage: motto", NoSeq, NoSeq)>>)
  ELSE IF ~IsState(s) THEN Raised(s, NoSeq)
  ELSE Result([s EXCEPT !.mottos = Append(@, trim(text))],
              <<Line("ok", "motto added", NoSeq, NoSeq)>>,
              FALSE, TRUE, FALSE, FALSE, NoSeq)

mottoCmd(s, text) ==
  IF trim(text) = <<>> THEN Printed(s, <<Line("warn", "usage: motto", NoSeq, NoSeq)>>)
  ELSE IF ~IsState(s) THEN Raised(s, NoSeq)
  ELSE Result([s EXCEPT !.mottos = Append(@, trim(text))],
              <<Line("ok", "motto added", NoSeq, NoSeq)>>,
              FALSE, TRUE, FALSE, FALSE, NoSeq)

countSince(s, days, t) ==
  Cardinality({i \in DOMAIN s.entries :
                 s.entries[i].date * TicksPerDay >= t - days * TicksPerDay})

statsCmd(s, t) ==
  IF ~IsState(s) THEN Raised(s, NoSeq)
  ELSE Printed(s, <<Line("info", "stats", NoSeq,
                         <<Len(s.entries), countSince(s, 7, t), countSince(s, 30, t)>>)>>)

clearScreen(s) == Result(s, NoSeq, FALSE, FALSE, TRUE, FALSE, NoSeq)

unknownCmd(s, cmd) ==
  Printed(s, <<Line("err", "is not a git command", cmd, NoSeq)>>)

\* const [cmd, ...rest] = tokenize(raw); c = (cmd || '').toLowerCase()
Command(toks) == IF toks = <<>> THEN <<>> ELSE toLowerCase(toks[1])

\* rest.join(' ')
Argument(toks) == IF toks = <<>> THEN <<>> ELSE join(Tail(toks))

handleCommand(s, raw, ids, t) ==
  LET toks == tokenize(raw)
      c == Command(toks)
      rest == Argument(toks)
  IN CASE c = <<"help">> -> help(s)
       [] c = <<"about">> -> aboutCmd(s)
       [] c = <<"log">> -> logCmd(s)
       [] c = <<"commit">> -> commitCmd(s, rest)
       [] c = <<"push">> -> pushCmd(s, ids, t)
       [] c = <<"clear">> -> clearScreen(s)
       [] c = <<"motto">> -> mottoCmd(s, rest)
       [] c = <<"stats">> -> statsCmd(s, t)
       [] OTHER -> unknownCmd(s, IF toks = <<>> THEN <<"undefined">> ELSE toks[1])

\* ---------------------------------------------------------------- inputs
\* Lines typed into the #command field (before the handler trims them).
Lines ==
  { <<"help">>,
    <<"About">>,
    <<"log">>,
    <<"stats">>,
    <<"clear">>,
    <<"PUSH">>,
    <<"commit", SP, DQ, "X", DQ>>,
    <<"commit">>,
    <<"motto", SP, DQ, "Ship", SP, "it", DQ>>,
    <<SP, "Motto", SP, "Ship", SP, "it", SP>>,
    <<"motto", SP, DQ, SP, DQ>>,
    <<"motto">>,
    <<"foo", SP, "bar">>,
    <<SQ, SQ>>,
    <<SP, SP>> }

\* Values typed into the add form of mottos.html.
MottoInputs ==
  { <<>>, <<SP>>, <<SP, "Ship", SP, "it", SP>> }

\* Records found under STORAGE_KEY when the first page is opened: nothing,
\* text that is not JSON, JSON null, JSON without the three lists, or a State
\* written earlier.
SampleItemX == [message |-> <<"X">>, lesson |-> <<"L">>]
SampleItemY == [message |-> <<"Y", SP, "z">>, lesson |-> <<"L">>]
SampleEntry == [id |-> 1, date |-> 0, message |-> <<"A">>, lesson |-> <<"L">>]

SampleStates ==
  { Value("State", <<>>, <<SampleEntry>>, seedMottos),
    Value("State", <<SampleItemX>>, <<SampleEntry>>, seedMottos),
    Value("State", <<SampleItemX, SampleItemY>>, <<>>, seedMottos) }

StoredRecords ==
  {Absent, Garbage, JSONstringify(Null), JSONstringify(Alien)}
    \cup {JSONstringify(v) : v \in SampleStates}

\* ---------------------------------------------------------------- events
Event(t, kind, arg, row, threw, drawn, from) ==
  [tab |-> t, kind |-> kind, arg |-> arg, row |-> row, threw |-> threw,
   drawn |-> drawn, from |-> from]

NoEvent == Event(0, "none", NoSeq, 0, FALSE, NoSeq, Absent)

\* particles party() creates
PartyPieces == 120

Init ==
  /\ store \in StoredRecords
  /\ now = 0
  /\ page = [t \in Tabs |-> "closed"]
  /\ state = [t \in Tabs |-> Null]
  /\ listening = [t \in Tabs |-> FALSE]
  /\ rows = [t \in Tabs |-> NoSeq]
  /\ out = [t \in Tabs |-> NoSeq]
  /\ input = [t \in Tabs |-> NoSeq]
  /\ confetti = [t \in Tabs |-> 0]
  /\ lastWriter = 0
  /\ ev = NoEvent

\* the page script never writing the default back
NeverSeeds(rec) == FALSE

\* if (!loadState()) saveState(state)
Seeds(rec) == ~Truthy(loadState(rec))

\* Script evaluation and DOMContentLoaded for document p in tab t.  The two
\* seed ids are drawn on every load and show only when the default is used
\* (otherwise the draw is fixed, so that equal loads are one step).  With a state that
\* lacks the lists, renderHomeLists / renderFailsPage / renderMottosPage raise
\* before the page's controls are attached to the document.
PageLoad(t, p, id1, id2) ==
  LET loaded == loadState(store)
      st == IF Truthy(loaded) THEN loaded ELSE defaultState(id1, id2, now)
      seeded == Seeds(store)
  IN /\ ~seeded => (id1 = 1 /\ id2 = 1)
     /\ store' = IF seeded THEN saveState(st) ELSE store
     /\ lastWriter' = IF seeded THEN t ELSE lastWriter
     /\ page' = [page EXCEPT ![t] = p]
     /\ state' = [state EXCEPT ![t] = st]
     /\ listening' = [listening EXCEPT ![t] = p \in {"home", "mottos"} /\ IsState(st)]
     /\ rows' = [rows EXCEPT ![t] = IF p = "fails" /\ IsState(st)
                                     THEN Reverse(st.entries) ELSE NoSeq]
     /\ out' = [out EXCEPT ![t] = IF p = "home" /\ IsState(st) THEN bootLines ELSE NoSeq]
     /\ input' = [input EXCEPT ![t] = NoSeq]
     /\ confetti' = [confetti EXCEPT ![t] = 0]
     /\ ev' = Event(t, "load", NoSeq, 0, ~IsState(st),
                    IF seeded THEN <<id1, id2>> ELSE NoSeq, store)
     /\ UNCHANGED now

\* calls of shortId() the line makes: one per pending item of a push
DrawCount(s, raw0) ==
  IF Command(tokenize(trim(raw0))) = <<"push">> THEN Len(s.pending) ELSE 0

\* The submit listener of #cli with raw0 in the #command field; party() finds
\* a #confetti element in the document (hc) or returns at once.  hc is read
\* by party() alone, so it is fixed for the lines that do not reach party().
Submit(t, raw0, ids, hc) ==
  LET raw == trim(raw0)
      r == handleCommand(state[t], raw, ids, now)
  IN /\ page[t] = "home"
     /\ listening[t]
     /\ Len(ids) = DrawCount(state[t], raw0)
     /\ hc \/ r.party
     /\ Len(r.state.mottos) <= MaxMottos
     /\ IF raw = <<>>
          THEN /\ input' = [input EXCEPT ![t] = raw0]
               /\ ev' = Event(t, "submit", raw0, 0, FALSE, NoSeq, Absent)
               /\ UNCHANGED <<store, state, out, confetti, lastWriter>>
          ELSE /\ state' = [state EXCEPT ![t] = r.state]
               /\ store' = IF r.saved THEN saveState(r.state) ELSE store
               /\ lastWriter' = IF r.saved THEN t ELSE lastWriter
               /\ out' = [out EXCEPT ![t] = IF r.cleared THEN r.out
                                             ELSE <<Echo(raw)>> \o r.out]
               /\ input' = [input EXCEPT ![t] = IF r.threw THEN raw0 ELSE NoSeq]
               /\ confetti' = [confetti EXCEPT ![t] =
                                 IF r.party /\ hc THEN PartyPieces ELSE @]
               /\ ev' = Event(t, "submit", raw0, 0, r.threw, r.drawn, Absent)
     /\ UNCHANGED <<now, page, listening, rows>>

\* Array.prototype.findIndex(x => x.id === id): 0 stands for -1
findIndex(entries, id) ==
  LET is == {i \in DOMAIN entries : entries[i].id = id}
  IN IF is = {} THEN 0 ELSE CHOOSE i \in is : \A k \in is : i <= k

\* splice(idx) without the delete count: removes to the end
spliceToEnd(entries, idx) == SubSeq(entries, 1, idx - 1)

\* Array.prototype.splice(idx, 1)
splice1(entries, idx) == RemoveAt(entries, idx)

\* The click listener of the delete button of row i of fails.html.
DeleteClick(t, i) ==
  LET e == rows[t][i]
      idx == findIndex(state[t].entries, e.id)
      s2 == [state[t] EXCEPT !.entries = splice1(@, idx)]
  IN /\ page[t] = "fails"
     /\ i \in DOMAIN rows[t]
     /\ IF idx # 0
          THEN /\ state' = [state EXCEPT ![t] = s2]
               /\ store' = saveState(s2)
               /\ lastWriter' = t
               /\ rows' = [rows EXCEPT ![t] = Reverse(s2.entries)]
          ELSE UNCHANGED <<state, store, lastWriter, rows>>
     /\ ev' = Event(t, "click", NoSeq, i, FALSE, NoSeq, Absent)
     /\ UNCHANGED <<now, page, listening, out, input, confetti>>

\* The add form's listener without its saveState call
AddMottoNoSave(t, val0) ==
  LET val == trim(val0)
      s2 == [state[t] EXCEPT !.mottos = Append(@, val)]
  IN /\ page[t] = "mottos"
     /\ listening[t]
     /\ val # <<>> => Len(s2.mottos) <= MaxMottos
     /\ IF val = <<>>
          THEN UNCHANGED state
          ELSE state' = [state EXCEPT ![t] = s2]
     /\ ev' = Event(t, "add", val0, 0, FALSE, NoSeq, Absent)
     /\ UNCHANGED <<store, lastWriter, now, page, listening, rows, out, input, confetti>>

\* The submit listener of the add form of mottos.html.
AddMotto(t, val0) ==
  LET val == trim(val0)
      s2 == [state[t] EXCEPT !.mottos = Append(@, val)]
  IN /\ page[t] = "mottos"
     /\ listening[t]
     /\ val # <<>> => Len(s2.mottos) <= MaxMottos
     /\ IF val = <<>>
          THEN UNCHANGED <<state, store, lastWriter>>
          ELSE /\ state' = [state EXCEPT ![t] = s2]
               /\ store' = saveState(s2)
               /\ lastWriter' = t
     /\ ev' = Event(t, "add", val0, 0, FALSE, NoSeq, Absent)
     /\ UNCHANGED <<now, page, listening, rows, out, input, confetti>>

\* setTimeout(() => root.innerHTML = '', 7000) of party()
ConfettiTimeout(t) ==
  /\ confetti[t] > 0
  /\ confetti' = [confetti EXCEPT ![t] = 0]
  /\ ev' = Event(t, "timeout", NoSeq, 0, FALSE, NoSeq, Absent)
  /\ UNCHANGED <<store, now, page, state, listening, rows, out, input, lastWriter>>

\* Time passes.
Tick ==
  /\ now < MaxNow
  /\ now' = now + 1
  /\ ev' = Event(0, "tick", NoSeq, 0, FALSE, NoSeq, Absent)
  /\ UNCHANGED <<store, page, state, listening, rows, out, input, confetti, lastWriter>>

Pages == {"home", "fails", "mottos"}

Load(t) == \E p \in Pages, id1 \in Ids, id2 \in Ids : PageLoad(t, p, id1, id2)
Command_(t) ==
  \E raw0 \in Lines :
    \E ids \in [1..DrawCount(state[t], raw0) -> Ids], hc \in BOOLEAN :
      Submit(t, raw0, ids, hc)
Delete(t) == \E i \in DOMAIN rows[t] : DeleteClick(t, i)
Add(t) == \E val0 \in MottoInputs : AddMotto(t, val0)
Timeout(t) == ConfettiTimeout(t)

\* One tab: every event of the page in tab 1.
Next ==
  \/ Load(1)
  \/ Command_(1)
  \/ Delete(1)
  \/ Add(1)
  \/ Timeout(1)
  \/ Tick

Spec == Init /\ [][Next]_vars

\* Two tabs on one storage origin, with the events that write the record.
RaceLines ==
  { <<"PUSH">>, <<"motto", SP, DQ, "Ship", SP, "it", DQ>> }

InitTabs ==
  /\ Init
  /\ store = JSONstringify(Value("State", <<SampleItemX>>, <<SampleEntry>>, seedMottos))

CommandT(t) ==
  \E raw0 \in RaceLines :
    \E ids \in [1..DrawCount(state[t], raw0) -> Ids] : Submit(t, raw0, ids, TRUE)

NextTabs ==
  \E t \in Tabs :
    \/ Load(t)
    \/ CommandT(t)
    \/ Delete(t)
    \/ Add(t)

SpecTabs == InitTabs /\ [][NextTabs]_vars

\* ---------------------------------------------------------------- properties
\* the command a submit event ran, and its argument string
EvToks(e) == tokenize(trim(e.arg))
Ran(e, c) == e.kind = "submit" /\ trim(e.arg) # <<>> /\ Command(EvToks(e)) = <<c>>
EvArg(e) == Argument(EvToks(e))

Known == {<<"help">>, <<"about">>, <<"log">>, <<"commit">>, <<"push">>,
          <<"clear">>, <<"motto">>, <<"stats">>}
Unrecognised(e) ==
  e.kind = "submit" /\ trim(e.arg) # <<>> /\ Command(EvToks(e)) \notin Known

Ids_(entries) == {entries[i].id : i \in DOMAIN entries}
Unique(entries) == Cardinality(Ids_(entries)) = Len(entries)
Distinct(ids) == Cardinality({ids[i] : i \in DOMAIN ids}) = Len(ids)
LastN(s, n) == SubSeq(s, Len(s) - n + 1, Len(s))

\* C1: after `commit "X"` (non-empty text) on a State, the handler has
\* completed, pending ends with an item whose message is the trimmed X, and
\* that State is persisted; after a push of n pending items, pending is empty,
\* the last n entries carry the drawn ids and the current date, and that State
\* is persisted.
C1_CommitPushRoundTrip ==
  \A t \in Tabs :
    /\ (ev.tab = t /\ Ran(ev, "commit") /\ trim(EvArg(ev)) # <<>> /\ IsState(state[t]))
         => /\ ~ev.threw
            /\ state[t].pending # <<>>
            /\ state[t].pending[Len(state[t].pending)].message = trim(EvArg(ev))
            /\ store = saveState(state[t])
    /\ (ev.tab = t /\ Ran(ev, "push") /\ ev.drawn # <<>>)
         => /\ state[t].pending = <<>>
            /\ Len(state[t].entries) >= Len(ev.drawn)
            /\ \A i \in DOMAIN ev.drawn :
                 LET e == LastN(state[t].entries, Len(ev.drawn))[i]
                 IN e.id = ev.drawn[i] /\ e.date = toLocaleDateString(now)
            /\ store = saveState(state[t])

\* C2: a click on the delete control of a rendered row removes exactly one
\* Entry, one whose id is the row's id; all other Entries keep their values
\* and order; pending and mottos are unchanged; the result is persisted.
C2_DeleteRemovesOne ==
  [][\A t \in Tabs :
       (ev'.kind = "click" /\ ev'.tab = t)
         => \E idx \in DOMAIN state[t].entries :
              /\ state[t].entries[idx].id = rows[t][ev'.row].id
              /\ state'[t].entries = RemoveAt(state[t].entries, idx)
              /\ Len(state'[t].entries) = Len(state[t].entries) - 1
              /\ state'[t].pending = state[t].pending
              /\ state'[t].mottos = state[t].mottos
              /\ store' = saveState(state'[t])]_vars

C2_Witness ==
  /\ ev.kind = "click"
  /\ Len(state[ev.tab].entries) >= 1
  /\ Len(rows[ev.tab]) = Len(state[ev.tab].entries)

\* C3: push on a State with empty pending changes neither the State nor the
\* persisted record, starts no celebration, and prints one warning line
\* (after the echo of the command).
C3_PushNothing ==
  [][\A t \in Tabs :
       (ev'.tab = t /\ Ran(ev', "push") /\ IsState(state[t]) /\ state[t].pending = <<>>)
         => /\ state'[t] = state[t]
            /\ store' = store
            /\ confetti' = confetti
            /\ ~ev'.threw
            /\ Len(out'[t]) = 2
            /\ out'[t][1] = Echo(trim(ev'.arg))
            /\ out'[t][2] = Line("warn", "nothing to push", NoSeq, NoSeq)]_vars

C3_Witness ==
  /\ Ran(ev, "push")
  /\ ev.drawn = <<>>
  /\ ~ev.threw
  /\ state[ev.tab].entries # <<>>
  /\ Len(out[ev.tab]) = 2
  /\ out[ev.tab][2].cls = "warn"

\* C4: a motto whose text is empty or whitespace-only changes neither mottos
\* nor the persisted record (and the motto command prints the usage
\* warning); a motto with non-empty trimmed text appends exactly that text at
\* the tail, leaves entries and pending alone, and persists the State.
C4_MottoAddition ==
  [][\A t \in Tabs :
       LET isCmd == ev'.tab = t /\ Ran(ev', "motto") /\ IsState(state[t])
           isAdd == ev'.tab = t /\ ev'.kind = "add"
           text == IF isCmd THEN trim(EvArg(ev')) ELSE trim(ev'.arg)
       IN (isCmd \/ isAdd)
            => IF text = <<>>
                 THEN /\ state'[t] = state[t]
                      /\ store' = store
                      /\ isCmd => out'[t] = <<Echo(trim(ev'.arg)),
                                              Line("warn", "usage: motto", NoSeq, NoSeq)>>
                 ELSE /\ state'[t].mottos = Append(state[t].mottos, text)
                      /\ state'[t].entries = state[t].entries
                      /\ state'[t].pending = state[t].pending
                      /\ store' = saveState(state'[t])]_vars

C4_Witness ==
  /\ ev.kind \in {"submit", "add"}
  /\ Len(state[ev.tab].mottos) = Len(seedMottos) + 1
  /\ state[ev.tab].mottos[Len(seedMottos) + 1] = <<"Ship", SP, "it">>
  /\ store = saveState(state[ev.tab])

\* C5 as stated: no two Entries of a State have the same id.
C5_IdsUnique ==
  \A t \in Tabs : IsState(state[t]) => Unique(state[t].entries)

\* C5 amended: a step leaves the ids of entries pairwise different whenever
\* they were so before it and the ids shortId returned during the step are
\* pairwise different and different from the ids already in entries.
C5_Basis(t) ==
  IF ev'.kind # "load" THEN state[t].entries
  ELSE IF ev'.drawn # <<>> THEN <<>>
  ELSE store.val.entries

C5_IdsUniqueUnlessCollision ==
  [][\A t \in Tabs :
       (/\ ev'.tab = t
        /\ IsState(state'[t])
        /\ Unique(C5_Basis(t))
        /\ Distinct(ev'.drawn)
        /\ {ev'.drawn[i] : i \in DOMAIN ev'.drawn} \cap Ids_(C5_Basis(t)) = {})
         => Unique(state'[t].entries)]_vars

C5_Witness ==
  /\ Ran(ev, "push")
  /\ Len(ev.drawn) = 2
  /\ Distinct(ev.drawn)
  /\ Unique(state[ev.tab].entries)

\* C6: a page load that finds no record, text that is not JSON, or JSON that
\* is not a State leaves the seeded default in memory and in the record, and
\* raises nothing.
C6_BadRecordIsAbsent ==
  \A t \in Tabs :
    (ev.kind = "load" /\ ev.tab = t
       /\ (ev.from.text # "json" \/ ~IsState(ev.from.val)))
      => /\ ~ev.threw
         /\ Len(ev.drawn) = 2
         /\ state[t] = defaultState(ev.drawn[1], ev.drawn[2], now)
         /\ store = saveState(state[t])

\* C7: with one tab, once a page is loaded the record deserialises to the
\* in-memory state.
C7_WriteThrough ==
  page[1] # "closed" => (store.text = "json" /\ loadState(store) = state[1])

C7_Witness ==
  /\ ev.kind = "click"
  /\ state[1].entries = <<>>
  /\ Len(state[1].mottos) > Len(seedMottos)
  /\ loadState(store) = state[1]

\* C8: every non-empty submitted line is handled without raising, the input
\* field is cleared, and an unrecognised first token prints exactly one
\* error-styled line.
C8_NoCommandFatal ==
  \A t \in Tabs :
    (ev.kind = "submit" /\ ev.tab = t /\ trim(ev.arg) # <<>>)
      => /\ ~ev.threw
         /\ input[t] = <<>>
         /\ Unrecognised(ev)
              => /\ Len(out[t]) = 2
                 /\ out[t][2].cls = "err"

\* C9: with two tabs, a tab's state changes only in that tab's own events
\* (it reads the record at its page load only), and the record is always the
\* whole state of the tab that saved last.
C9_LastWriterWins ==
  [][/\ lastWriter' # 0 => store' = saveState(state'[lastWriter'])
     /\ \A t \in Tabs : ev'.tab # t => state'[t] = state[t]
     /\ \A t \in Tabs :
          (ev'.tab = t /\ state'[t] # state[t] /\ ev'.kind # "load")
            => (lastWriter' = t /\ store' = saveState(state'[t]))]_vars

\* the other tab saved a motto after the last writer's page load, and the
\* record does not have it
C9_Witness ==
  /\ lastWriter = 1
  /\ page[2] = "mottos"
  /\ Len(state[2].mottos) > Len(store.val.mottos)
  /\ store = saveState(state[1])
  /\ state[1].pending = <<>>
  /\ state[2].pending # <<>>

\* C10: help, about, log, stats, clear and unrecognised commands change
\* neither the State nor the persisted record; clear empties the output.
C10_ReadOnlyCommands ==
  [][\A t \in Tabs :
       (/\ ev'.tab = t
        /\ \/ \E c \in {"help", "about", "log", "stats", "clear"} : Ran(ev', c)
           \/ Unrecognised(ev'))
         => /\ state'[t] = state[t]
            /\ store' = store
            /\ lastWriter' = lastWriter
            /\ Ran(ev', "clear") => (out'[t] = <<>> /\ rows' = rows /\ confetti' = confetti)]_vars

C10_Witness ==
  /\ Ran(ev, "clear")
  /\ out[ev.tab] = <<>>
  /\ Len(state[ev.tab].entries) >= 2
  /\ store = saveState(state[ev.tab])

====
